---- MODULE Spec2Model ----
(***************************************************************************)
(* Model of the prompt-rendering core of iam-mcp-server                    *)
(* (src/src/mcp_server_iam/prompt.py): the filename sanitizer, the legacy  *)
(* strip policy of save_jobs, the filename construction of the five        *)
(* prompt renderers, and the current-date clock they read.                 *)
(*                                                                         *)
(* A text is a sequence of characters.  An ASCII character is the string   *)
(* of length 1 that holds it; a non-ASCII character is named by a longer   *)
(* string ("e-acute" is U+00E9).  T("abc") is the text <<"a", "b", "c">>.  *)
(* A rendered document is the sequence of the values bound to the          *)
(* interpolation points of its f-string, in order of appearance (the       *)
(* skeleton between them is fixed text).  An optional argument is <<>>     *)
(* (None) or <<s>>.                                                        *)
(***************************************************************************)
EXTENDS Integers, Sequences, FiniteSets, TLC

VARIABLES pc, req, res, today, ticks, first
\* the memo of _sanitize_for_filename and the callers going through it
VARIABLES cache, caller

\* config.py: the environment, the import of the module, the memo of
\* get_settings, the AppConfig constructions so far, the threads calling it
VARIABLES env, config_module, settings_cache, constructed, getter

promptVars == <<pc, req, res, today, ticks, first>>
memoVars == <<cache, caller>>
configVars == <<env, config_module, settings_cache, constructed, getter>>
vars == <<promptVars, memoVars, configVars>>

(* ------------------------------ bounds --------------------------------- *)

\* longest text drawn exhaustively over Alphabet for a direct sanitizer call
MaxLen == 3
\* how many times the calendar day may advance during a run
MaxTicks == 1
\* how many calls each concurrent caller of a memoized function makes
MaxCalls == 2

(* ---------------------------- characters ------------------------------- *)

\* the text of an ASCII string literal
T(s) == [i \in 1..Len(s) |-> SubSeq(s, i, i)]

AsciiUpper == T("ABCDEFGHIJKLMNOPQRSTUVWXYZ")
AsciiLower == T("abcdefghijklmnopqrstuvwxyz")
AsciiDigits == T("0123456789")

\* non-ASCII characters for which str.isalnum() is True: U+00C9 and U+00C3
\* with their lower-case forms U+00E9 and U+00E3, and the digit U+00B2
NonAsciiUpper == <<"E-acute", "A-tilde">>
NonAsciiLower == <<"e-acute", "a-tilde">>
NonAsciiDigits == <<"superscript-2">>

CharsOf(s) == {s[i] : i \in 1..Len(s)}

\* the characters for which str.isalnum() is True
AlnumChars ==
    CharsOf(AsciiUpper) \cup CharsOf(AsciiLower) \cup CharsOf(AsciiDigits)
        \cup CharsOf(NonAsciiUpper) \cup CharsOf(NonAsciiLower)
        \cup CharsOf(NonAsciiDigits)

\* the characters [a-zA-Z0-9]
AsciiAlnumChars ==
    CharsOf(AsciiUpper) \cup CharsOf(AsciiLower) \cup CharsOf(AsciiDigits)

\* the lower-case form of every cased upper-case character
LowerOf ==
    [c \in CharsOf(AsciiUpper) \cup CharsOf(NonAsciiUpper) |->
        IF c \in CharsOf(AsciiUpper)
            THEN AsciiLower[CHOOSE j \in 1..Len(AsciiUpper) : AsciiUpper[j] = c]
            ELSE NonAsciiLower[CHOOSE j \in 1..Len(NonAsciiUpper) :
                                   NonAsciiUpper[j] = c]]

\* str.isalnum() of one character
IsAlnum(c) == c \in AlnumChars

\* str.lower() of one character
LowerChar(c) == IF c \in DOMAIN LowerOf THEN LowerOf[c] ELSE c

\* str.lower()
Lower(s) == [i \in 1..Len(s) |-> LowerChar(s[i])]

(* ------------------------- string primitives --------------------------- *)

\* s.split(sep) for a one-character separator: the parts, empty ones included
RECURSIVE SplitAcc(_, _, _)
SplitAcc(s, sep, cur) ==
    IF s = <<>> THEN <<cur>>
    ELSE IF Head(s) = sep THEN <<cur>> \o SplitAcc(Tail(s), sep, <<>>)
    ELSE SplitAcc(Tail(s), sep, Append(cur, Head(s)))

Split(s, sep) == SplitAcc(s, sep, <<>>)

\* sep.join(parts)
RECURSIVE Join(_, _)
Join(sep, parts) ==
    IF parts = <<>> THEN <<>>
    ELSE IF Len(parts) = 1 THEN parts[1]
    ELSE parts[1] \o sep \o Join(sep, Tail(parts))

\* [p for p in parts if p]
NonEmptyParts(parts) == SelectSeq(parts, LAMBDA p : p # <<>>)

\* s.replace(a, b) for one-character a and b
Replace(s, a, b) == [i \in 1..Len(s) |-> IF s[i] = a THEN b ELSE s[i]]

\* s.strip(): after the legacy filter the only whitespace left is " "
RECURSIVE LStrip(_)
LStrip(s) == IF s # <<>> /\ Head(s) = " " THEN LStrip(Tail(s)) ELSE s

RECURSIVE RStrip(_)
RStrip(s) ==
    IF s # <<>> /\ s[Len(s)] = " " THEN RStrip(SubSeq(s, 1, Len(s) - 1)) ELSE s

Strip(s) == RStrip(LStrip(s))

\* str(n) of an integer
RECURSIVE NatToStr(_)
NatToStr(n) ==
    IF n < 10 THEN <<AsciiDigits[n + 1]>>
    ELSE Append(NatToStr(n \div 10), AsciiDigits[(n % 10) + 1])

IntToStr(n) == IF n < 0 THEN <<"-">> \o NatToStr(0 - n) ELSE NatToStr(n)

\* zero-padded decimal of width w, as strftime's %Y (4), %m (2), %d (2)
RECURSIVE ZeroPad(_, _)
ZeroPad(s, w) == IF Len(s) >= w THEN s ELSE ZeroPad(<<"0">> \o s, w)

\* datetime.strftime("%Y-%m-%d")
StrfDate(d) ==
    ZeroPad(NatToStr(d[1]), 4) \o <<"-">> \o ZeroPad(NatToStr(d[2]), 2)
        \o <<"-">> \o ZeroPad(NatToStr(d[3]), 2)

\* Python truthiness of an optional string (None and "" are falsy)
Truthy(opt) == opt # <<>> /\ opt[1] # <<>>

\* f-string rendering of an optional string
FmtOpt(opt) == IF opt = <<>> THEN T("None") ELSE opt[1]

(* --------------------------- pure helpers ------------------------------ *)

\* str.replace("__", "_"): one left-to-right pass over non-overlapping pairs
RECURSIVE ReplaceDoubleUnderscore(_)
ReplaceDoubleUnderscore(s) ==
    IF Len(s) < 2 THEN s
    ELSE IF SubSeq(s, 1, 2) = <<"_", "_">>
        THEN <<"_">> \o ReplaceDoubleUnderscore(SubSeq(s, 3, Len(s)))
    ELSE <<Head(s)>> \o ReplaceDoubleUnderscore(Tail(s))

\* variant: line 396 collapses with a single replace("__", "_") pass
SanitizeReplaceOnce(text) ==
    LET lowered == Lower(text)
        mapped == [i \in 1..Len(lowered) |->
                      IF IsAlnum(lowered[i]) \/ lowered[i] \in {"-", "_"}
                          THEN lowered[i] ELSE "_"]
    IN  ReplaceDoubleUnderscore(mapped)

\* variant: line 392 is missing, the text is not lower-cased
SanitizeNoLower(text) ==
    LET mapped == [i \in 1..Len(text) |->
                      IF IsAlnum(text[i]) \/ text[i] \in {"-", "_"}
                          THEN text[i] ELSE "_"]
    IN  Join(<<"_">>, NonEmptyParts(Split(mapped, "_")))

\* variant: line 394 keeps "_" only, a dash becomes a separator
SanitizeDashDropped(text) ==
    LET lowered == Lower(text)
        mapped == [i \in 1..Len(lowered) |->
                      IF IsAlnum(lowered[i]) \/ lowered[i] = "_"
                          THEN lowered[i] ELSE "_"]
    IN  Join(<<"_">>, NonEmptyParts(Split(mapped, "_")))

\* prompt.py:392-397, the body of _sanitize_for_filename
SanitizeForFilename(text) ==
    LET lowered == Lower(text)
        mapped == [i \in 1..Len(lowered) |->
                      IF IsAlnum(lowered[i]) \/ lowered[i] \in {"-", "_"}
                          THEN lowered[i] ELSE "_"]
    IN  Join(<<"_">>, NonEmptyParts(Split(mapped, "_")))

\* variant: save_jobs reuses the filename-token sanitizer
LegacyStripSanitized(text) == SanitizeForFilename(text)

\* prompt.py:131-132 (and 138-141, 145-148): the inline strip of save_jobs
LegacyStrip(text) ==
    LET kept == SelectSeq(text, LAMBDA c : IsAlnum(c) \/ c \in {" ", "-", "_"})
    IN  Replace(Strip(kept), " ", "_")

\* variant: lines 137 and 144 test "is not None" instead of truthiness
SaveJobsFilenameNotNone(date, role, city, country, num_jobs) ==
    LET parts0 == <<date, LegacyStrip(role)>>
        parts1 == IF city # <<>>
                      THEN Append(parts0, LegacyStrip(city[1])) ELSE parts0
        parts2 == IF country # <<>>
                      THEN Append(parts1, LegacyStrip(country[1])) ELSE parts1
        parts3 == Append(parts2, IntToStr(num_jobs))
    IN  Join(<<"_">>, parts3) \o T(".json")

\* prompt.py:135-152: filename_parts and the joined filename of save_jobs
SaveJobsFilename(date, role, city, country, num_jobs) ==
    LET parts0 == <<date, LegacyStrip(role)>>
        parts1 == IF Truthy(city)
                      THEN Append(parts0, LegacyStrip(city[1])) ELSE parts0
        parts2 == IF Truthy(country)
                      THEN Append(parts1, LegacyStrip(country[1])) ELSE parts1
        parts3 == Append(parts2, IntToStr(num_jobs))
    IN  Join(<<"_">>, parts3) \o T(".json")

\* variant: lines 504-505 put the role before the company
ResumeFilenameRoleFirst(date, safe_company, safe_role) ==
    date \o <<"_">> \o safe_role \o <<"_">> \o safe_company \o T("_resume.md")

\* prompt.py:504-505: the filename interpolated by generate_resume_prompt
ResumeFilename(date, safe_company, safe_role) ==
    date \o <<"_">> \o safe_company \o <<"_">> \o safe_role \o T("_resume.md")

\* prompt.py:624-625: the filename interpolated by generate_cover_letter_prompt
CoverLetterFilename(date, safe_company, safe_role) ==
    date \o <<"_">> \o safe_company \o <<"_">> \o safe_role
        \o T("_cover_letter.md")

\* prompt.py:373-374: the filename interpolated by mesh_resumes
MeshFilename(resume_mesh_filename, date) ==
    resume_mesh_filename \o <<"_">> \o date \o T(".md")

\* prompt.py:229: the declared pattern ^[a-zA-Z0-9_\-]+\.md$ of resume_mesh_filename
MatchesMeshPattern(s) ==
    /\ Len(s) >= 4
    /\ SubSeq(s, Len(s) - 2, Len(s)) = T(".md")
    /\ \A i \in 1..(Len(s) - 3) : s[i] \in AsciiAlnumChars \cup {"_", "-"}

(* ------------------------------ inputs --------------------------------- *)

\* characters of the exhaustively enumerated texts: an upper-case and a
\* lower-case letter, a digit, the two kept marks, a space, punctuation, and
\* a non-ASCII letter
Alphabet == {"a", "B", "7", "-", "_", " ", "!", "e-acute"}

RECURSIVE TextsUpTo(_)
TextsUpTo(n) ==
    IF n = 0 THEN {<<>>}
    ELSE LET shorter == TextsUpTo(n - 1)
         IN  shorter \cup {Append(s, c) : s \in shorter, c \in Alphabet}

SaoPaulo == T("S") \o <<"a-tilde">> \o T("o Paulo")

\* free text a caller passes as role, company, city or country
TextSamples ==
    {T(""), T("Senior Data Scientist"), T("Acme Corp."), T("!!!"), T("Zurich"),
     T("Site Reliability Engineer!"), SaoPaulo, T(" R&D  Lab "),
     T("C++_-_Dev"), <<"E-acute", "superscript-2">>}

CitySamples == {<<>>, <<T("")>>, <<SaoPaulo>>, <<T("!!!")>>, <<T(" R&D  Lab ")>>}
CountrySamples == {<<>>, <<T("")>>, <<T("Switzerland")>>, <<T("?")>>}
SuppliedDates == {T("2024-03-01"), T("someday")}
SaveNumJobs == {0 - 3, 0, 7, 100}
AnalyzeNumJobs == {0, 1, 5, 20, 21, 25}
PlatformSamples ==
    {<<>>, <<T("")>>, <<T("linkedin")>>, <<T("indeed")>>, <<T("glassdoor")>>,
     <<T("monster")>>}
MeshNames ==
    {T("mesh.md"), T("My_mesh-1.md"), T("my mesh.md"), T("mesh"), T(""),
     T("../x.md"), T(".md"), <<"E-acute">> \o T("mesh.md"), T("mesh.md.txt")}
StartDates == {<<2024, 3, 1>>, <<1999, 12, 9>>}

SanitizeRequests ==
    {[kind |-> "sanitize", text |-> t, raw |-> t, again |-> FALSE] :
        t \in TextsUpTo(MaxLen) \cup TextSamples}

\* date is <<>> when the caller passes no date keyword
ResumeRequests ==
    {[kind |-> "generate_resume", save_directory |-> T("/out"), role |-> r,
      company |-> c, job_description |-> T("..."), date |-> d] :
        r \in TextSamples, c \in TextSamples, d \in {<<>>, <<T("2024-03-01")>>}}

CoverLetterRequests ==
    {[kind |-> "generate_cover_letter", save_directory |-> T("/out"),
      role |-> r, company |-> c, job_description |-> T("...")] :
        r \in TextSamples, c \in TextSamples}

SaveJobsRequests ==
    {[kind |-> "save_jobs", jobs_dir |-> T("/jobs"), date |-> d, role |-> r,
      city |-> ci, country |-> co, num_jobs |-> n] :
        d \in SuppliedDates, r \in TextSamples, ci \in CitySamples,
        co \in CountrySamples, n \in SaveNumJobs}

MeshRequests ==
    {[kind |-> "mesh_resumes", save_directory |-> T("/out"),
      resume_mesh_filename |-> f, date |-> d] :
        f \in MeshNames, d \in SuppliedDates}

AnalyzeRequests ==
    {[kind |-> "analyze_job_market", role |-> r, city |-> ci, country |-> co,
      platform |-> p, num_jobs |-> n] :
        r \in {T("Engineer"), T("")},
        ci \in {<<>>, <<T("")>>, <<T("Zurich")>>},
        co \in {<<>>, <<T("")>>, <<T("Switzerland")>>}, p \in PlatformSamples,
        n \in AnalyzeNumJobs}

\* server.py:86-110, the prompt entry point: the same five parameters
ServerAnalyzeRequests ==
    {[r EXCEPT !.kind = "server_analyze_job_market"] : r \in AnalyzeRequests}

\* server.py:19-53, the tool entry point; slice_job_description is <<>>
\* when absent
SliceSamples == {<<>>, <<0>>, <<200>>}
SearchNumJobs == {1, 5, 20, 21}

ServerSearchRequests ==
    {[kind |-> "server_search_jobs", role |-> r, city |-> ci, country |-> co,
      platform |-> p, n_jobs |-> n, slice_job_description |-> sl] :
        r \in {T("Engineer"), T("")}, ci \in {<<>>, <<T("Zurich")>>},
        co \in {<<>>, <<T("Switzerland")>>},
        p \in {<<>>, <<T("linkedin")>>, <<T("monster")>>},
        n \in SearchNumJobs, sl \in SliceSamples}

Requests ==
    SanitizeRequests \cup ResumeRequests \cup CoverLetterRequests
        \cup SaveJobsRequests \cup MeshRequests \cup AnalyzeRequests
        \cup ServerAnalyzeRequests \cup ServerSearchRequests

\* requests a caller issues a second time to compare the two documents
Repeated ==
    {r \in ResumeRequests \cup CoverLetterRequests :
        /\ r.role \in {T("Senior Data Scientist"), T("Zurich")}
        /\ r.company = T("Acme Corp.")
        /\ r.kind = "generate_resume" => r.date = <<>>}
    \cup {r \in SaveJobsRequests :
        /\ r.role = T("Senior Data Scientist")
        /\ r.date = T("2024-03-01")
        /\ r.city \in {<<>>, <<SaoPaulo>>}
        /\ r.country = <<T("Switzerland")>>
        /\ r.num_jobs \in {7, 100}}
    \cup {r \in MeshRequests :
        /\ r.resume_mesh_filename \in {T("mesh.md"), T("My_mesh-1.md")}
        /\ r.date = T("2024-03-01")}
    \cup {r \in AnalyzeRequests :
        /\ r.role = T("Engineer")
        /\ r.city = <<>>
        /\ r.country \in {<<>>, <<T("Switzerland")>>}
        /\ r.platform \in {<<>>, <<T("linkedin")>>}
        /\ r.num_jobs \in {1, 20}}

\* calls of every kind made between a request and its repetition
InBetween ==
    {r \in SanitizeRequests : r.text \in {T("Acme Corp."), T("Zurich")}}
    \cup {r \in ResumeRequests \cup CoverLetterRequests :
        r.role = T("!!!") /\ r.company \in {T("Acme Corp."), T("Zurich")}}
    \cup {r \in SaveJobsRequests :
        /\ r.role = T("Zurich") /\ r.date = T("someday")
        /\ r.city = <<>> /\ r.num_jobs = 7}
    \cup {r \in MeshRequests : r.resume_mesh_filename = T("mesh")}
    \cup {r \in AnalyzeRequests \cup ServerAnalyzeRequests :
        /\ r.role = T("") /\ r.city = <<>> /\ r.country = <<>>
        /\ r.num_jobs = 25}
    \cup {r \in ServerSearchRequests :
        /\ r.role = T("Engineer") /\ r.city = <<>> /\ r.country = <<>>
        /\ r.n_jobs = 5 /\ r.slice_job_description = <<>>}

NoReq == [kind |-> "none"]
\* no earlier call is remembered
NoKept == [req |-> NoReq]
NoRes == [status |-> "none"]

\* a returned prompt: the filename it instructs (<<>> when it names no file)
\* and the values of its interpolation points in order of appearance
Rendered(filename, document) ==
    [status |-> "ok", filename |-> filename, document |-> document]

\* a call that raised instead of returning
Raised(exc) == [status |-> exc, filename |-> <<>>, document |-> <<>>]

\* a coroutine object: the call fn(args) created but not run
Coroutine(fn, args) ==
    [status |-> "coroutine", fn |-> fn, args |-> args, filename |-> <<>>,
     document |-> <<>>]

(* ----------------------- config.py: the threads ------------------------ *)

\* the thread that imports config, and the threads calling get_settings()
Importer == 0
Getters == {1, 2, 3}
Threads == {Importer} \cup Getters

\* an AppConfig object is named by the number of the construction that made
\* it; 0 is no object
IdleGetter == [pc |-> "idle", result |-> 0, calls |-> 0]

\* the process after "from config import settings" succeeded (server.py:3)
ConfigLoaded ==
    /\ env = "valid"
    /\ config_module = "loaded"
    /\ settings_cache = <<1>>
    /\ constructed = 1
    /\ getter = [t \in Threads |-> IdleGetter]

(* ------------------- the memo of _sanitize_for_filename ---------------- *)

\* prompt.py:381 @lru_cache(maxsize=32)
CacheMaxSize == 32

Callers == {1, 2}

\* the i-th of the distinct texts sanitized earlier in the process
FillKey(i) == T("Job ") \o NatToStr(i)

\* texts the concurrent callers pass: three that differ only in a space or in
\* case, and the text whose entry is the oldest of a full memo
CallKeys == {T("a b"), T("ab"), T("A b"), FillKey(1)}

\* variant: the memo is keyed on the text with its spaces removed
CacheKeyNoSpaces(text) == SelectSeq(text, LAMBDA c : c # " ")

\* functools.lru_cache keys a call with one str argument on the str itself
CacheKey(text) == text

\* what a completed call with this text stores; raw notes the text itself
Entry(text) ==
    [key |-> CacheKey(text), value |-> SanitizeForFilename(text),
     raw |-> text]

\* the memo after the first n distinct texts were sanitized one after another
\* (n <= CacheMaxSize), oldest entry first
Filled(n) == [i \in 1..n |-> Entry(FillKey(i))]

HasKey(c, k) == \E i \in 1..Len(c) : c[i].key = k
IndexOf(c, k) == CHOOSE i \in 1..Len(c) : c[i].key = k
Without(c, i) == SubSeq(c, 1, i - 1) \o SubSeq(c, i + 1, Len(c))

\* from is the text the returned value was computed for
IdleCaller == [pc |-> "idle", arg |-> <<>>, result |-> <<>>, hit |-> FALSE,
               from |-> <<>>, calls |-> 0]

\* the prompt functions are specified without the memo
MemoUnused ==
    /\ cache = <<>>
    /\ caller = [c \in Callers |-> IdleCaller]

\* a process whose memo is empty, one entry short of full, or full
InitCache ==
    /\ pc = "idle"
    /\ req = NoReq
    /\ res = NoRes
    /\ today = <<2024, 3, 1>>
    /\ ticks = 0
    /\ first = NoKept
    /\ cache \in {Filled(0), Filled(CacheMaxSize - 1), Filled(CacheMaxSize)}
    /\ caller = [c \in Callers |-> IdleCaller]
    /\ ConfigLoaded

\* a thread calls _sanitize_for_filename(text)
CacheCall(c) ==
    /\ caller[c].pc = "idle"
    /\ caller[c].calls < MaxCalls
    /\ \E text \in CallKeys :
           caller' = [caller EXCEPT ![c] =
               [pc |-> "lookup", arg |-> text, result |-> <<>>,
                hit |-> FALSE, from |-> <<>>, calls |-> @.calls + 1]]
    /\ UNCHANGED cache
    /\ UNCHANGED <<promptVars, configVars>>

\* the wrapper looks the key up: a hit makes the entry the most recent one
\* and returns its value, a miss goes on to call the function
CacheLookup(c) ==
    /\ caller[c].pc = "lookup"
    /\ LET k == CacheKey(caller[c].arg)
       IN  IF HasKey(cache, k)
              THEN LET i == IndexOf(cache, k)
                   IN  /\ cache' = Append(Without(cache, i), cache[i])
                       /\ caller' = [caller EXCEPT ![c].pc = "return",
                                         ![c].result = cache[i].value,
                                         ![c].from = cache[i].raw,
                                         ![c].hit = TRUE]
              ELSE /\ caller' = [caller EXCEPT ![c].pc = "compute"]
                   /\ UNCHANGED cache
    /\ UNCHANGED <<promptVars, configVars>>

\* prompt.py:382-397, the body of _sanitize_for_filename runs on a miss
CacheCompute(c) ==
    /\ caller[c].pc = "compute"
    /\ caller' = [caller EXCEPT ![c].pc = "insert",
                      ![c].result = SanitizeForFilename(caller[c].arg),
                      ![c].from = caller[c].arg]
    /\ UNCHANGED cache
    /\ UNCHANGED <<promptVars, configVars>>

\* the wrapper stores the result unless another thread stored the key
\* meanwhile; a full memo first drops its oldest entry
CacheInsert(c) ==
    /\ caller[c].pc = "insert"
    /\ LET k == CacheKey(caller[c].arg)
           e == [key |-> k, value |-> caller[c].result,
                 raw |-> caller[c].arg]
       IN  cache' = IF HasKey(cache, k) THEN cache
                    ELSE IF Len(cache) < CacheMaxSize THEN Append(cache, e)
                    ELSE Append(Tail(cache), e)
    /\ caller' = [caller EXCEPT ![c].pc = "return"]
    /\ UNCHANGED <<promptVars, configVars>>

\* the call returns its result to the thread
CacheReturn(c) ==
    /\ caller[c].pc = "return"
    /\ caller' = [caller EXCEPT ![c].pc = "idle", ![c].arg = <<>>,
                      ![c].result = <<>>, ![c].hit = FALSE,
                      ![c].from = <<>>]
    /\ UNCHANGED cache
    /\ UNCHANGED <<promptVars, configVars>>

NextCache ==
    \/ \E c \in Callers : CacheCall(c)
    \/ \E c \in Callers : CacheLookup(c)
    \/ \E c \in Callers : CacheCompute(c)
    \/ \E c \in Callers : CacheInsert(c)
    \/ \E c \in Callers : CacheReturn(c)

SpecCache == InitCache /\ [][NextCache]_vars

(* --------------------- config.py: get_settings ------------------------- *)

\* a fresh process; the environment validates or it does not
InitConfig ==
    /\ pc = "idle"
    /\ req = NoReq
    /\ res = NoRes
    /\ today = <<2024, 3, 1>>
    /\ ticks = 0
    /\ first = NoKept
    /\ MemoUnused
    /\ env \in {"valid", "invalid"}
    /\ config_module = "unloaded"
    /\ settings_cache = <<>>
    /\ constructed = 0
    /\ getter = [t \in Threads |-> IdleGetter]

\* variant: config.py without line 253, the module loads without calling
\* get_settings()
ImportConfigLazy ==
    /\ config_module = "unloaded"
    /\ config_module' = "loaded"
    /\ UNCHANGED <<env, settings_cache, constructed, getter>>
    /\ UNCHANGED <<promptVars, memoVars>>

\* config.py:1-253 the first import runs the module body, whose last
\* statement (line 253) calls get_settings() in the importing thread
ImportConfig ==
    /\ config_module = "unloaded"
    /\ config_module' = "loading"
    /\ getter' = [getter EXCEPT ![Importer].pc = "lookup"]
    /\ UNCHANGED <<env, settings_cache, constructed>>
    /\ UNCHANGED <<promptVars, memoVars>>

\* a thread calls get_settings(); the name exists once the import is over
GetSettings(t) ==
    /\ t \in Getters
    /\ config_module = "loaded"
    /\ getter[t].pc = "idle"
    /\ getter[t].calls < MaxCalls
    /\ getter' = [getter EXCEPT ![t].pc = "lookup", ![t].result = 0,
                      ![t].calls = @ + 1]
    /\ UNCHANGED <<env, config_module, settings_cache, constructed>>
    /\ UNCHANGED <<promptVars, memoVars>>

\* config.py:227 lru_cache(maxsize=1): the wrapper looks up the one key
SettingsLookup(t) ==
    /\ getter[t].pc = "lookup"
    /\ getter' = IF settings_cache # <<>>
                     THEN [getter EXCEPT ![t].pc = "return",
                                         ![t].result = settings_cache[1]]
                     ELSE [getter EXCEPT ![t].pc = "construct"]
    /\ UNCHANGED <<env, config_module, settings_cache, constructed>>
    /\ UNCHANGED <<promptVars, memoVars>>

\* config.py:246-249 AppConfig() reads and validates the environment; any
\* exception is re-raised as ConfigurationError and nothing is memoized
Construct(t) ==
    /\ getter[t].pc = "construct"
    /\ constructed' = constructed + 1
    /\ getter' = IF env = "valid"
                     THEN [getter EXCEPT ![t].pc = "insert",
                                         ![t].result = constructed + 1]
                     ELSE [getter EXCEPT ![t].pc = "ConfigurationError"]
    /\ UNCHANGED <<env, config_module, settings_cache>>
    /\ UNCHANGED <<promptVars, memoVars>>

\* the wrapper memoizes the object unless the key was stored meanwhile
SettingsInsert(t) ==
    /\ getter[t].pc = "insert"
    /\ settings_cache' = IF settings_cache # <<>> THEN settings_cache
                             ELSE <<getter[t].result>>
    /\ getter' = [getter EXCEPT ![t].pc = "return"]
    /\ UNCHANGED <<env, config_module, constructed>>
    /\ UNCHANGED <<promptVars, memoVars>>

\* get_settings() returns; in the importing thread line 253 binds settings
\* and the import is over
SettingsReturn(t) ==
    /\ getter[t].pc = "return"
    /\ getter' = [getter EXCEPT ![t].pc = "idle"]
    /\ config_module' = IF t = Importer THEN "loaded" ELSE config_module
    /\ UNCHANGED <<env, settings_cache, constructed>>
    /\ UNCHANGED <<promptVars, memoVars>>

\* ConfigurationError leaves get_settings(); raised at line 253 it ends the
\* import, and config stays unusable in this process
SettingsRaise(t) ==
    /\ getter[t].pc = "ConfigurationError"
    /\ getter' = [getter EXCEPT ![t].pc = IF t = Importer THEN "failed"
                                          ELSE "idle"]
    /\ config_module' = IF t = Importer THEN "failed" ELSE config_module
    /\ UNCHANGED <<env, settings_cache, constructed>>
    /\ UNCHANGED <<promptVars, memoVars>>

\* the environment or the .env file is changed while the process runs
EnvChange ==
    /\ env' = IF env = "valid" THEN "invalid" ELSE "valid"
    /\ UNCHANGED <<config_module, settings_cache, constructed, getter>>
    /\ UNCHANGED <<promptVars, memoVars>>

NextConfig ==
    \/ ImportConfig
    \/ \E t \in Getters : GetSettings(t)
    \/ \E t \in Threads : SettingsLookup(t)
    \/ \E t \in Threads : Construct(t)
    \/ \E t \in Threads : SettingsInsert(t)
    \/ \E t \in Threads : SettingsReturn(t)
    \/ \E t \in Threads : SettingsRaise(t)
    \/ EnvChange

SpecConfig == InitConfig /\ [][NextConfig]_vars

(* --------------------------- state machine ----------------------------- *)

\* the caller's record after the pending call is answered: the first answer
\* to a request it will repeat is kept with the day it was computed; later
\* the record notes a call of another request in between, and the repetition
\* with its day
Remembered(answer) ==
    IF first = NoKept
        THEN IF req \in Repeated
                THEN [req |-> req, res |-> answer, day |-> today,
                      between |-> FALSE, repeated |-> FALSE, again |-> today]
                ELSE first
        ELSE IF req = first.req
                THEN [first EXCEPT !.repeated = TRUE, !.again = today]
                ELSE [first EXCEPT !.between = TRUE]

Init ==
    /\ pc = "idle"
    /\ req = NoReq
    /\ res = NoRes
    /\ today \in StartDates
    /\ ticks = 0
    /\ first = NoKept
    /\ MemoUnused
    /\ ConfigLoaded

\* a caller invokes one of the functions with concrete arguments
Call ==
    /\ pc = "idle"
    /\ \E r \in (IF first = NoKept THEN Requests
                  ELSE InBetween \cup {first.req}) : req' = r
    /\ pc' = "pending"
    /\ UNCHANGED <<res, today, ticks, first>>
    /\ UNCHANGED <<memoVars, configVars>>

\* prompt.py:381-397 _sanitize_for_filename, called directly
Sanitize ==
    /\ pc = "pending"
    /\ req.kind = "sanitize"
    /\ res' = [status |-> "ok", token |-> SanitizeForFilename(req.text)]
    /\ pc' = "done"
    /\ first' = Remembered(res')
    /\ UNCHANGED <<req, today, ticks>>
    /\ UNCHANGED <<memoVars, configVars>>

\* the caller feeds a sanitized token back into _sanitize_for_filename
SanitizeAgain ==
    /\ pc = "done"
    /\ req.kind = "sanitize"
    /\ ~req.again
    /\ req' = [kind |-> "sanitize", text |-> res.token, raw |-> req.raw,
                again |-> TRUE]
    /\ res' = NoRes
    /\ pc' = "pending"
    /\ UNCHANGED <<today, ticks, first>>
    /\ UNCHANGED <<memoVars, configVars>>

\* variant: generate_resume_prompt takes an optional date and stamps it
GenerateResumePromptWithDate ==
    /\ pc = "pending"
    /\ req.kind = "generate_resume"
    /\ LET date == IF req.date # <<>> THEN req.date[1] ELSE StrfDate(today)
           safe_role == SanitizeForFilename(req.role)
           safe_company == SanitizeForFilename(req.company)
           resume_markdown_file == T("resume mesh markdown file")
           filename == ResumeFilename(date, safe_company, safe_role)
       IN  res' = Rendered(<<filename>>,
               <<req.role, req.company, req.job_description,
                 resume_markdown_file, resume_markdown_file,
                 resume_markdown_file, resume_markdown_file,
                 resume_markdown_file, resume_markdown_file,
                 req.save_directory, filename, filename>>)
    /\ pc' = "done"
    /\ first' = Remembered(res')
    /\ UNCHANGED <<req, today, ticks>>
    /\ UNCHANGED <<memoVars, configVars>>

\* prompt.py:400-509 generate_resume_prompt; the signature (400-415) has no
\* date parameter, so a date keyword raises TypeError before the body runs
GenerateResumePrompt ==
    /\ pc = "pending"
    /\ req.kind = "generate_resume"
    /\ IF req.date # <<>>
          THEN res' = Raised("TypeError")
          ELSE LET date == StrfDate(today)
                   safe_role == SanitizeForFilename(req.role)
                   safe_company == SanitizeForFilename(req.company)
                   \* line 432; the literal is back-quoted in the source
                   resume_markdown_file == T("resume mesh markdown file")
                   filename == ResumeFilename(date, safe_company, safe_role)
               IN  res' = Rendered(<<filename>>,
                       <<req.role, req.company, req.job_description,
                         resume_markdown_file, resume_markdown_file,
                         resume_markdown_file, resume_markdown_file,
                         resume_markdown_file, resume_markdown_file,
                         req.save_directory, filename, filename>>)
    /\ pc' = "done"
    /\ first' = Remembered(res')
    /\ UNCHANGED <<req, today, ticks>>
    /\ UNCHANGED <<memoVars, configVars>>

\* prompt.py:512-629 generate_cover_letter_prompt
GenerateCoverLetterPrompt ==
    /\ pc = "pending"
    /\ req.kind = "generate_cover_letter"
    /\ LET date == StrfDate(today)
           safe_role == SanitizeForFilename(req.role)
           safe_company == SanitizeForFilename(req.company)
           filename == CoverLetterFilename(date, safe_company, safe_role)
       IN  res' = Rendered(<<filename>>,
               <<safe_role, safe_company, req.job_description, safe_company,
                 safe_role, safe_company, req.role, req.save_directory,
                 filename, filename>>)
    /\ pc' = "done"
    /\ first' = Remembered(res')
    /\ UNCHANGED <<req, today, ticks>>
    /\ UNCHANGED <<memoVars, configVars>>

\* variant: save_jobs stamps the current date instead of the caller's date
SaveJobsClockDate ==
    /\ pc = "pending"
    /\ req.kind = "save_jobs"
    /\ LET date == StrfDate(today)
           filename == SaveJobsFilename(date, req.role, req.city,
                                        req.country, req.num_jobs)
           n == IntToStr(req.num_jobs)
       IN  res' = Rendered(<<filename>>,
               <<req.jobs_dir, filename, date, req.role, FmtOpt(req.city),
                 FmtOpt(req.country), date, req.jobs_dir, filename, n>>)
    /\ pc' = "done"
    /\ first' = Remembered(res')
    /\ UNCHANGED <<req, today, ticks>>
    /\ UNCHANGED <<memoVars, configVars>>

\* prompt.py:96-215 save_jobs
SaveJobs ==
    /\ pc = "pending"
    /\ req.kind = "save_jobs"
    /\ LET filename == SaveJobsFilename(req.date, req.role, req.city,
                                        req.country, req.num_jobs)
           n == IntToStr(req.num_jobs)
       IN  res' = Rendered(<<filename>>,
               <<req.jobs_dir, filename, req.date, req.role, FmtOpt(req.city),
                 FmtOpt(req.country), req.date, req.jobs_dir, filename, n>>)
    /\ pc' = "done"
    /\ first' = Remembered(res')
    /\ UNCHANGED <<req, today, ticks>>
    /\ UNCHANGED <<memoVars, configVars>>

\* prompt.py:218-378 mesh_resumes
MeshResumes ==
    /\ pc = "pending"
    /\ req.kind = "mesh_resumes"
    /\ LET filename == MeshFilename(req.resume_mesh_filename, req.date)
       IN  res' = Rendered(<<filename>>,
               <<req.save_directory, filename, filename>>)
    /\ pc' = "done"
    /\ first' = Remembered(res')
    /\ UNCHANGED <<req, today, ticks>>
    /\ UNCHANGED <<memoVars, configVars>>

\* prompt.py:49-93, the f-string analyze_job_market returns
AnalyzeDocument(role, city, country, platform, num_jobs) ==
    <<IntToStr(num_jobs), role, FmtOpt(city), FmtOpt(country),
      FmtOpt(platform), role, FmtOpt(city), FmtOpt(country),
      FmtOpt(platform)>>

\* prompt.py:8-93 analyze_job_market, awaited
AnalyzeJobMarket ==
    /\ pc = "pending"
    /\ req.kind = "analyze_job_market"
    /\ res' = Rendered(<<>>,
           AnalyzeDocument(req.role, req.city, req.country, req.platform,
                           req.num_jobs))
    /\ pc' = "done"
    /\ first' = Remembered(res')
    /\ UNCHANGED <<req, today, ticks>>
    /\ UNCHANGED <<memoVars, configVars>>

\* server.py:82-132 analyze_job_market, awaited: line 126 returns the call
\* analyze_job_market_prompt(...) of an async def without awaiting it, so
\* the awaited result is the coroutine object of that call
ServerAnalyzeJobMarket ==
    /\ pc = "pending"
    /\ req.kind = "server_analyze_job_market"
    /\ res' = Coroutine("prompt.analyze_job_market",
           [role |-> req.role, city |-> req.city, country |-> req.country,
            platform |-> req.platform, num_jobs |-> req.num_jobs])
    /\ pc' = "done"
    /\ first' = Remembered(res')
    /\ UNCHANGED <<req, today, ticks>>
    /\ UNCHANGED <<memoVars, configVars>>

\* server.py:15-79 search_jobs, awaited: line 72 calls the name search_jobs,
\* which in server.py is bound to this very async def, without awaiting it,
\* so the awaited result is the coroutine object of a second call of itself
ServerSearchJobs ==
    /\ pc = "pending"
    /\ req.kind = "server_search_jobs"
    /\ res' = Coroutine("server.search_jobs",
           [role |-> req.role, city |-> req.city, country |-> req.country,
            platform |-> req.platform, n_jobs |-> req.n_jobs,
            slice_job_description |-> req.slice_job_description])
    /\ pc' = "done"
    /\ first' = Remembered(res')
    /\ UNCHANGED <<req, today, ticks>>
    /\ UNCHANGED <<memoVars, configVars>>

\* the result is handed back and the call's locals are discarded
Return ==
    /\ pc = "done"
    /\ pc' = "idle"
    /\ req' = NoReq
    /\ res' = NoRes
    /\ UNCHANGED <<today, ticks, first>>
    /\ UNCHANGED <<memoVars, configVars>>

\* midnight passes: datetime.now() reports the next calendar day
Tick ==
    /\ ticks < MaxTicks
    /\ today[3] < 28
    /\ today' = <<today[1], today[2], today[3] + 1>>
    /\ ticks' = ticks + 1
    /\ UNCHANGED <<pc, req, res, first>>
    /\ UNCHANGED <<memoVars, configVars>>

Next ==
    \/ Call
    \/ Sanitize
    \/ SanitizeAgain
    \/ GenerateResumePrompt
    \/ GenerateCoverLetterPrompt
    \/ SaveJobs
    \/ MeshResumes
    \/ AnalyzeJobMarket
    \/ ServerAnalyzeJobMarket
    \/ ServerSearchJobs
    \/ Return
    \/ Tick

Spec == Init /\ [][Next]_vars

(* ----------------------------- properties ------------------------------ *)

Done(kind) == pc = "done" /\ req.kind = kind

HasSubstr(s, sub) ==
    \E i \in 1..(Len(s) - Len(sub) + 1) : SubSeq(s, i, i + Len(sub) - 1) = sub

StartsWith(s, pre) == Len(s) >= Len(pre) /\ SubSeq(s, 1, Len(pre)) = pre

EndsWith(s, suf) ==
    Len(s) >= Len(suf) /\ SubSeq(s, Len(s) - Len(suf) + 1, Len(s)) = suf

NoStrayUnderscore(s) ==
    ~HasSubstr(s, T("__")) /\ ~StartsWith(s, T("_")) /\ ~EndsWith(s, T("_"))

\* C1: sanitizing an already sanitized token returns it unchanged:
\* sanitize(sanitize(s)) = sanitize(s) for every text s.
C1_SanitizeIdempotent ==
    (Done("sanitize") /\ req.again) => res.token = req.text

\* a token that differs from its raw text has been sanitized a second time
C1_Witness ==
    /\ Done("sanitize")
    /\ req.again
    /\ req.text # <<>>
    /\ req.text # req.raw

\* C2 as stated: every token consists of [a-z0-9_-] only, holds no "__" and
\* neither starts nor ends with "_".
C2_AsciiCanonical ==
    Done("sanitize") =>
        /\ CharsOf(res.token) \subseteq
               CharsOf(AsciiLower) \cup CharsOf(AsciiDigits) \cup {"_", "-"}
        /\ NoStrayUnderscore(res.token)

\* C2 amended: every character of a token is alphanumeric in the sense of
\* str.isalnum() (non-ASCII letters and digits are kept) or is "-" or "_",
\* none is an ASCII capital, and the token holds no "__" and neither starts
\* nor ends with "_".
C2_UnicodeCanonical ==
    Done("sanitize") =>
        /\ CharsOf(res.token) \subseteq
               (AlnumChars \ CharsOf(AsciiUpper)) \cup {"_", "-"}
        /\ NoStrayUnderscore(res.token)

\* a token that kept a non-ASCII character of a text with a capital in it
C2_Witness ==
    /\ Done("sanitize")
    /\ ~req.again
    /\ CharsOf(req.text) \cap CharsOf(AsciiUpper) # {}
    /\ CharsOf(res.token) \cap CharsOf(NonAsciiLower) # {}

\* C3 as stated: a non-empty text never sanitizes to the empty token.
C3_NonEmptyStaysNonEmpty ==
    (Done("sanitize") /\ req.text # <<>>) => res.token # <<>>

\* C3 amended: the token is empty exactly when the lower-cased text holds no
\* alphanumeric character and no "-"; a non-empty text of punctuation,
\* spaces and underscores sanitizes to the empty token.
C3_EmptyIffNothingKept ==
    Done("sanitize") =>
        (res.token = <<>> <=>
            \A c \in CharsOf(Lower(req.text)) : ~IsAlnum(c) /\ c # "-")

\* a non-empty text whose token is empty
C3_Witness ==
    /\ Done("sanitize")
    /\ req.text # <<>>
    /\ res.token = <<>>

\* the segments of a save_jobs filename in order, given the tokens of the
\* role, the city and the country
SaveJobsSegments(role_token, city_token, country_token) ==
    <<req.date, role_token>>
        \o (IF req.city # <<>> /\ req.city[1] # <<>> THEN <<city_token>> ELSE <<>>)
        \o (IF req.country # <<>> /\ req.country[1] # <<>>
                THEN <<country_token>> ELSE <<>>)

\* the text of an optional argument, None read as the empty text
TextOf(opt) == IF opt = <<>> THEN <<>> ELSE opt[1]

\* C4: a role, company, city or country whose token is empty leaves no
\* empty segment in the filename of generate_resume_prompt,
\* generate_cover_letter_prompt and save_jobs: the segment is omitted.
C4_EmptySegmentOmitted ==
    /\ (Done("generate_resume") /\ res.status = "ok") =>
           ~HasSubstr(res.filename[1], T("__"))
    /\ Done("generate_cover_letter") => ~HasSubstr(res.filename[1], T("__"))
    /\ Done("save_jobs") =>
           LET segs == SaveJobsSegments(LegacyStrip(req.role),
                                        LegacyStrip(TextOf(req.city)),
                                        LegacyStrip(TextOf(req.country)))
           IN  res.filename[1] =
                   Join(<<"_">>, <<Head(segs)>> \o NonEmptyParts(Tail(segs))
                                     \o <<IntToStr(req.num_jobs)>>)
                       \o T(".json")

IsIsoDate(d) ==
    /\ Len(d) = 10
    /\ d[5] = "-" /\ d[8] = "-"
    /\ \A i \in {1, 2, 3, 4, 6, 7, 9, 10} : d[i] \in CharsOf(AsciiDigits)

\* C5: the filename generate_resume_prompt instructs is
\* {date}_{sanitize(company)}_{sanitize(role)}_resume.md and the one
\* generate_cover_letter_prompt instructs is the same with _cover_letter.md,
\* date being of the form YYYY-MM-DD and the company coming before the role.
C5_FilenameExact ==
    /\ (Done("generate_resume") /\ res.status = "ok") =>
           LET fn == res.filename[1]
               date == SubSeq(fn, 1, 10)
           IN  /\ IsIsoDate(date)
               /\ fn = date \o T("_") \o SanitizeForFilename(req.company)
                           \o T("_") \o SanitizeForFilename(req.role)
                           \o T("_resume.md")
               /\ res.document[11] = fn /\ res.document[12] = fn
    /\ Done("generate_cover_letter") =>
           LET fn == res.filename[1]
               date == SubSeq(fn, 1, 10)
           IN  /\ IsIsoDate(date)
               /\ fn = date \o T("_") \o SanitizeForFilename(req.company)
                           \o T("_") \o SanitizeForFilename(req.role)
                           \o T("_cover_letter.md")
               /\ res.document[9] = fn /\ res.document[10] = fn

\* a cover letter for the spec's example role and company, named on the day
\* after the first start date
C5_Witness ==
    /\ Done("generate_cover_letter")
    /\ req.role = T("Senior Data Scientist")
    /\ req.company = T("Acme Corp.")
    /\ res.filename =
           <<T("2024-03-02_acme_corp_senior_data_scientist_cover_letter.md")>>

SpecExampleResume ==
    /\ req.kind = "generate_resume"
    /\ req.role = T("Senior Data Scientist")
    /\ req.company = T("Acme Corp.")

\* C6 as stated: generate_resume called with date="2024-03-01" for the
\* spec's example role and company yields
\* 2024-03-01_acme_corp_senior_data_scientist_resume.md whatever the day.
C6_CallerDateUsed ==
    (pc = "done" /\ SpecExampleResume /\ req.date = <<T("2024-03-01")>>) =>
        res.filename =
            <<T("2024-03-01_acme_corp_senior_data_scientist_resume.md")>>

\* C6 amended: generate_resume_prompt has no date parameter.  A call that
\* passes a date raises TypeError and renders nothing; a call without one
\* stamps the day of the call, so the example yields the 2024-03-01 filename
\* on 2024-03-01 and the 2024-03-02 filename on 2024-03-02.
C6_CurrentDateOnly ==
    [][(pc = "pending" /\ req.kind = "generate_resume" /\ pc' = "done") =>
          IF req.date # <<>>
              THEN res'.status = "TypeError" /\ res'.filename = <<>>
                       /\ res'.document = <<>>
              ELSE /\ res'.status = "ok"
                   /\ SubSeq(res'.filename[1], 1, 10) = StrfDate(today)
                   /\ (SpecExampleResume /\ today = <<2024, 3, 1>>) =>
                          res'.filename = <<T(
                            "2024-03-01_acme_corp_senior_data_scientist_resume.md")>>
                   /\ (SpecExampleResume /\ today = <<2024, 3, 2>>) =>
                          res'.filename = <<T(
                            "2024-03-02_acme_corp_senior_data_scientist_resume.md")>>
      ]_vars

\* the example resume rendered on a day other than 2024-03-01
C6_Witness ==
    /\ pc = "done"
    /\ SpecExampleResume
    /\ req.date = <<>>
    /\ res.filename =
           <<T("2024-03-02_acme_corp_senior_data_scientist_resume.md")>>

\* C7: the save_jobs filename is date, role token, city token, country
\* token, n joined by "_" and followed by .json, in that order; the city
\* token is there iff a non-empty city is supplied, the country token iff a
\* non-empty country is supplied; n is num_jobs in decimal.
C7_SaveJobsFilenameShape ==
    Done("save_jobs") =>
        /\ res.status = "ok"
        /\ res.filename[1] =
               req.date \o T("_") \o LegacyStrip(req.role)
                   \o (IF req.city \in {<<>>, <<T("")>>} THEN T("")
                       ELSE T("_") \o LegacyStrip(req.city[1]))
                   \o (IF req.country \in {<<>>, <<T("")>>} THEN T("")
                       ELSE T("_") \o LegacyStrip(req.country[1]))
                   \o T("_") \o IntToStr(req.num_jobs) \o T(".json")
        /\ res.document[2] = res.filename[1]

\* a city is given, the country is the empty string, and 7 jobs are saved
C7_Witness ==
    /\ Done("save_jobs")
    /\ req.role = T("Senior Data Scientist")
    /\ req.city = <<SaoPaulo>>
    /\ req.country = <<T("")>>
    /\ req.num_jobs = 7
    /\ res.filename =
           <<T("2024-03-01_Senior_Data_Scientist_S") \o <<"a-tilde">>
                 \o T("o_Paulo_7.json")>>

\* the legacy policy as C8 states it: only [a-zA-Z0-9], space, "-" and "_"
\* are kept, then each space becomes "_"
C8_AsciiPolicy(text) ==
    LET kept == SelectSeq(text, LAMBDA c : c \in AsciiAlnumChars \cup {" ", "-", "_"})
    IN  [i \in 1..Len(kept) |-> IF kept[i] = " " THEN "_" ELSE kept[i]]

\* the legacy policy of the code: the characters for which str.isalnum() is
\* True, space, "-" and "_" are kept; the spaces before the first and after
\* the last other character are dropped; each remaining space becomes "_"
C8_UnicodePolicy(text) ==
    LET kept == SelectSeq(text, LAMBDA c : c \in AlnumChars \cup {" ", "-", "_"})
        solid == {i \in 1..Len(kept) : kept[i] # " "}
        lo == CHOOSE i \in solid : \A j \in solid : i <= j
        hi == CHOOSE i \in solid : \A j \in solid : j <= i
    IN  IF solid = {} THEN <<>>
        ELSE [i \in 1..(hi - lo + 1) |->
                 IF kept[lo + i - 1] = " " THEN "_" ELSE kept[lo + i - 1]]

\* C8 as stated: the tokens of the save_jobs filename keep ASCII
\* alphanumerics, space, "-" and "_" only, preserve case, keep repeated
\* underscores, and have each space replaced by "_".
C8_AsciiLegacyTokens ==
    Done("save_jobs") =>
        res.filename[1] =
            Join(<<"_">>,
                 SaveJobsSegments(C8_AsciiPolicy(req.role),
                                  C8_AsciiPolicy(TextOf(req.city)),
                                  C8_AsciiPolicy(TextOf(req.country)))
                     \o <<IntToStr(req.num_jobs)>>) \o T(".json")

\* C8 amended: the tokens keep every character that is alphanumeric in the
\* sense of str.isalnum() (non-ASCII letters stay), space, "-" and "_", drop
\* the rest, lose leading and trailing spaces, preserve case, keep repeated
\* underscores, and have each remaining space replaced by "_": "Site
\* Reliability Engineer!" gives Site_Reliability_Engineer and "São Paulo"
\* gives São_Paulo.
C8_UnicodeLegacyTokens ==
    Done("save_jobs") =>
        /\ res.filename[1] =
               Join(<<"_">>,
                    SaveJobsSegments(C8_UnicodePolicy(req.role),
                                     C8_UnicodePolicy(TextOf(req.city)),
                                     C8_UnicodePolicy(TextOf(req.country)))
                        \o <<IntToStr(req.num_jobs)>>) \o T(".json")
        /\ req.role = T("Site Reliability Engineer!") =>
               StartsWith(res.filename[1],
                          req.date \o T("_Site_Reliability_Engineer_"))
        /\ req.city = <<SaoPaulo>> =>
               HasSubstr(res.filename[1],
                         T("_S") \o <<"a-tilde">> \o T("o_Paulo_"))

\* the spec's example: role "Site Reliability Engineer!" in São Paulo
C8_Witness ==
    /\ Done("save_jobs")
    /\ req.role = T("Site Reliability Engineer!")
    /\ req.city = <<SaoPaulo>>
    /\ req.country = <<>>
    /\ res.filename =
           <<T("someday_Site_Reliability_Engineer_S") \o <<"a-tilde">>
                 \o T("o_Paulo_100.json")>>

\* C9: mesh_resumes names the file {resume_mesh_filename}_{date}.md only
\* when resume_mesh_filename matches ^[a-zA-Z0-9_-]+\.md$; otherwise the
\* call fails with InvalidFilenamePattern and renders no document.
C9_PatternEnforced ==
    Done("mesh_resumes") =>
        IF MatchesMeshPattern(req.resume_mesh_filename)
            THEN /\ res.status = "ok"
                 /\ res.filename =
                        <<req.resume_mesh_filename \o T("_") \o req.date
                              \o T(".md")>>
            ELSE /\ res.status = "InvalidFilenamePattern"
                 /\ res.filename = <<>>
                 /\ res.document = <<>>

\* C10: analyze_job_market with a non-empty city and an absent or empty
\* country is rejected with CityRequiresCountry and renders no document.
C10_CityRequiresCountry ==
    (/\ Done("analyze_job_market")
     /\ req.city \notin {<<>>, <<T("")>>}
     /\ req.country \in {<<>>, <<T("")>>}) =>
        res.status = "CityRequiresCountry" /\ res.document = <<>>

\* the validation rules of the five document kinds, in their order of
\* precedence: the failure a request must be answered with, "ok" if none
Falsy(opt) == opt = <<>> \/ opt[1] = <<>>

MissingRequired(r) ==
    CASE r.kind = "analyze_job_market" -> r.role = <<>>
      [] r.kind = "save_jobs" -> r.role = <<>> \/ r.jobs_dir = <<>>
      [] r.kind = "mesh_resumes" -> r.save_directory = <<>>
      [] OTHER -> \/ r.role = <<>>
                  \/ r.company = <<>>
                  \/ r.job_description = <<>>
                  \/ r.save_directory = <<>>

CityWithoutCountry(r) ==
    /\ r.kind \in {"analyze_job_market", "save_jobs"}
    /\ ~Falsy(r.city)
    /\ Falsy(r.country)

PlatformOutsideEnum(r) ==
    /\ r.kind = "analyze_job_market"
    /\ ~Falsy(r.platform)
    /\ r.platform[1] \notin {T("linkedin"), T("indeed"), T("glassdoor")}

CountOutOfRange(r) ==
    \/ r.kind = "analyze_job_market" /\ r.num_jobs \notin 1..20
    \/ r.kind = "save_jobs" /\ r.num_jobs \notin 1..100

NameOutsidePattern(r) ==
    r.kind = "mesh_resumes" /\ ~MatchesMeshPattern(r.resume_mesh_filename)

RequiredOutcome(r) ==
    IF MissingRequired(r) THEN "MissingRequiredField"
    ELSE IF CityWithoutCountry(r) THEN "CityRequiresCountry"
    ELSE IF PlatformOutsideEnum(r) THEN "InvalidPlatform"
    ELSE IF CountOutOfRange(r) THEN "OutOfRange"
    ELSE IF NameOutsidePattern(r) THEN "InvalidFilenamePattern"
    ELSE "ok"

DocumentKinds ==
    {"analyze_job_market", "save_jobs", "mesh_resumes", "generate_resume",
     "generate_cover_letter"}

\* C11: analyze_job_market with a platform that is present, non-empty and
\* not linkedin, indeed or glassdoor is rejected with InvalidPlatform and
\* renders nothing; an absent or empty platform is accepted.
C11_PlatformEnumEnforced ==
    (/\ Done("analyze_job_market")
     /\ ~MissingRequired(req)
     /\ ~CityWithoutCountry(req)
     /\ ~CountOutOfRange(req)) =>
        IF PlatformOutsideEnum(req)
            THEN res.status = "InvalidPlatform" /\ res.document = <<>>
            ELSE res.status = "ok"

\* C12: a job count outside 1..20 for analyze_job_market, or outside 1..100
\* for save_jobs, is rejected with OutOfRange and renders nothing; every
\* count inside the range is accepted.
C12_CountBoundsEnforced ==
    (/\ pc = "done"
     /\ req.kind \in {"analyze_job_market", "save_jobs"}
     /\ ~MissingRequired(req)
     /\ ~CityWithoutCountry(req)
     /\ ~PlatformOutsideEnum(req)) =>
        IF CountOutOfRange(req)
            THEN res.status = "OutOfRange" /\ res.document = <<>>
            ELSE res.status = "ok"

\* C13: the rules are applied in the order required field, city/country,
\* platform, count, filename pattern and the first failure wins: a request
\* with an empty role and a city without a country is answered with
\* MissingRequiredField, never with CityRequiresCountry.
C13_FirstFailureWins ==
    /\ (/\ Done("analyze_job_market")
        /\ req.role = <<>>
        /\ CityWithoutCountry(req)) => res.status = "MissingRequiredField"
    /\ (pc = "done" /\ req.kind \in DocumentKinds
            /\ RequiredOutcome(req) # "ok") =>
           res.status = RequiredOutcome(req)

\* C17: a call of a renderer returns either exactly one typed validation
\* failure and no document, or a complete document; it never raises and
\* never renders a request that breaks a rule of its kind.
C17_TypedFailureOrDocument ==
    (pc = "done" /\ req.kind \in DocumentKinds) =>
        /\ res.status = RequiredOutcome(req)
        /\ res.status = "ok" => res.document # <<>>
        /\ res.status # "ok" => res.document = <<>> /\ res.filename = <<>>

\* C18: each interpolation that is part of a filename is bound to a
\* sanitized or validated value (the date and resume_mesh_filename segments
\* included), and each prose interpolation of the role or company label,
\* such as the cover letter's position line and heading, is bound to the
\* caller's raw text.
C18_FilenameSafeProseRaw ==
    /\ (Done("generate_cover_letter") /\ res.status = "ok") =>
           /\ res.document[1] = req.role
           /\ res.document[2] = req.company
           /\ res.document[4] = req.company
           /\ res.document[5] = req.role
           /\ res.document[6] = req.company
           /\ res.document[7] = req.role
    /\ (Done("generate_resume") /\ res.status = "ok") =>
           res.document[1] = req.role /\ res.document[2] = req.company
    /\ (Done("save_jobs") /\ res.status = "ok") =>
           /\ IsIsoDate(SubSeq(res.filename[1], 1, 10))
           /\ res.document[4] = req.role
    /\ (Done("mesh_resumes") /\ res.status = "ok") =>
           /\ MatchesMeshPattern(req.resume_mesh_filename)
           /\ IsIsoDate(req.date)

\* a repeated request has just been answered again
Repeat ==
    pc = "done" /\ first # NoKept /\ req = first.req /\ first.repeated

ClockKinds == {"generate_resume", "generate_cover_letter"}

C15_MemoTransparent ==
    /\ \A c \in Callers :
           caller[c].pc = "return" =>
               /\ caller[c].result = SanitizeForFilename(caller[c].arg)
               /\ caller[c].from = caller[c].arg
    /\ Len(cache) <= CacheMaxSize

\* a hit for "ab" while "a b" is memoized too, in a full memo that has
\* evicted its oldest entry
C15_Witness ==
    /\ \E c \in Callers :
           /\ caller[c].pc = "return"
           /\ caller[c].hit
           /\ caller[c].arg = T("ab")
    /\ HasKey(cache, T("a b"))
    /\ Len(cache) = CacheMaxSize
    /\ ~HasKey(cache, FillKey(1))

\* C16: for every accepted query the search_jobs tool forwards the query
\* to the external search provider and completes with a list of job records
\* or with an error record.
C16_SearchCompletesWithJobsOrError ==
    (/\ Done("server_search_jobs")
     /\ req.role # <<>>
     /\ req.n_jobs \in 1..20
     /\ Falsy(req.platform) \/ req.platform[1] = T("linkedin")
     /\ Falsy(req.city) \/ ~Falsy(req.country)) =>
        res.status \in {"jobs", "error"}

\* C19: over every interleaving of get_settings() calls in a process,
\* AppConfig is constructed and validated at most once, every call that
\* returns hands out the same settings object, and a failed construction
\* leaves get_settings as ConfigurationError.
C19_SettingsWriteOnce ==
    /\ constructed <= 1
    /\ \A t \in Threads :
           /\ getter[t].pc = "return" =>
                  getter[t].result = 1 /\ settings_cache = <<1>>
           /\ getter[t].pc \in {"ConfigurationError", "failed"} =>
                  t = Importer /\ settings_cache = <<>>
           /\ getter[t].pc \in
                  {"idle", "lookup", "construct", "insert", "return",
                   "ConfigurationError", "failed"}
    /\ config_module = "loaded" => settings_cache = <<1>>

\* two threads are inside get_settings() at once, one already holding the
\* object, after the environment has stopped validating
C19_Witness ==
    /\ getter[1].pc = "return"
    /\ getter[2].pc = "lookup"
    /\ getter[1].calls = MaxCalls
    /\ env = "invalid"
    /\ constructed = 1

\* C20: the analyze_job_market entry point of server.py forwards its five
\* arguments unchanged and its completed result is the string that
\* prompt.analyze_job_market renders for them, not a pending computation.
C20_ServerAnalyzeIsRenderedString ==
    Done("server_analyze_job_market") =>
        /\ res.status = "ok"
        /\ res.document = AnalyzeDocument(req.role, req.city, req.country,
                                          req.platform, req.num_jobs)

====
